---- MODULE Spec2Model ----
(***************************************************************************)
(* Model of src/src/lib.rs: Statfeed<T>, a statistical-feedback selector.  *)
(*                                                                         *)
(* f64 values are modelled bit for bit: sign, exponent and the 53-bit      *)
(* significand (held in two limbs, the integers of TLC being 32 bits       *)
(* wide), with both zeros, the subnormal values, the infinities and NaN;   *)
(* +, -, * and / round to nearest, ties to even, as the hardware does.     *)
(*                                                                         *)
(* Vectors are functions over 0..len-1 so that indices are the source's.   *)
(* choices is a sequence: choices[k+1] is the element pushed k-th.         *)
(***************************************************************************)
EXTENDS Integers, Sequences, FiniteSets, TLC

VARIABLES randoms, weights, choices, heterogeneities, accents, statistics,
          decisions, options, pc, dec, index, calls, sel, first

vars == <<randoms, weights, choices, heterogeneities, accents, statistics,
          decisions, options, pc, dec, index, calls, sel, first>>

\* Bounds of the model.
MaxOptions == 3
MaxSize == 3
MaxCalls == 2

----------------------------------------------------------------------------
\* f64 and its operations (IEEE 754 binary64, round to nearest, ties to even).

\* An f64 is <<s, e, h, l>>: sign bit s, and for a finite value the
\* significand m = h * 2^28 + l (m < 2^53) and the exponent e of its last
\* bit, the value being (-1)^s * m * 2^e.  Normal values have
\* 2^52 <= m < 2^53 and MinExp <= e <= MaxExp; subnormal values and the
\* zeros have e = MinExp and m < 2^52.  e = SpecialExp marks the infinities
\* (m = 0) and NaN (m # 0).
Limb == 2 ^ 28
HalfLimb == 2 ^ 14
MinExp == -1074
MaxExp == 971
SpecialExp == 972

Zero == <<0, MinExp, 0, 0>>
NegZero == <<1, MinExp, 0, 0>>
PosInf == <<0, SpecialExp, 0, 0>>
NegInf == <<1, SpecialExp, 0, 0>>
NaN == <<0, SpecialExp, 1, 0>>

IsNaN(a) == a[2] = SpecialExp /\ a[3] # 0
IsInf(a) == a[2] = SpecialExp /\ a[3] = 0
IsFinite(a) == a[2] # SpecialExp
IsZero(a) == a[2] # SpecialExp /\ a[3] = 0 /\ a[4] = 0

\* |a| < |b| for values that are not NaN.
MagLess(a, b) ==
    \/ a[2] < b[2]
    \/ a[2] = b[2] /\ (a[3] < b[3] \/ (a[3] = b[3] /\ a[4] < b[4]))

\* x with its last bit set when sticky: the bits shifted out are remembered.
Jam(x, sticky) == IF sticky /\ x % 2 = 0 THEN x + 1 ELSE x

\* The number H * 2^28 + L shifted right by k bits, the last bit of the
\* result set when a nonzero bit was shifted out.
ShiftRightJam(H, L, k) ==
    IF k = 0 THEN <<H, L>>
    ELSE IF k < 28
    THEN <<H \div 2 ^ k,
           Jam((L \div 2 ^ k) + (H % 2 ^ k) * 2 ^ (28 - k), L % 2 ^ k # 0)>>
    ELSE IF k < 58
    THEN <<0, Jam(H \div 2 ^ (k - 28), L # 0 \/ H % 2 ^ (k - 28) # 0)>>
    ELSE <<0, IF H # 0 \/ L # 0 THEN 1 ELSE 0>>

\* The number H * 2^28 + L shifted left by k < 28 bits (no bit is lost).
ShiftLeft(H, L, k) ==
    <<H * 2 ^ k + L \div 2 ^ (28 - k), (L % 2 ^ (28 - k)) * 2 ^ k>>

\* The significand of a with three more bits below it.
Wide(a) == <<a[3] * 8 + a[4] \div 2 ^ 25, (a[4] % 2 ^ 25) * 8>>

\* Rounding to nearest, ties to even, of the nonzero magnitude
\* (H * 2^28 + L) * 2^e whose last bit is sticky, by the last three bits,
\* once H * 2^28 + L has 56 bits or e + 3 = MinExp.
RoundBits(s, e, H, L) ==
    LET up == L + 4
        H4 == H + up \div Limb
        L4 == up % Limb
        l0 == (L4 \div 8) + (H4 % 8) * 2 ^ 25
        h0 == H4 \div 8
        l1 == IF L % 8 = 4 THEN l0 - (l0 % 2) ELSE l0
        carry == h0 = 2 ^ 25
        h == IF carry THEN 2 ^ 24 ELSE h0
        ef == IF carry THEN e + 4 ELSE e + 3
    IN IF h = 0 /\ l1 = 0 THEN <<s, MinExp, 0, 0>>
       ELSE IF ef > MaxExp THEN <<s, SpecialExp, 0, 0>>
       ELSE <<s, ef, h, l1>>

\* A number of bits (16, 8, 4, 2 or 1, at most most when most >= 1) by which
\* the number of two limbs with high limb H can be shifted left and stay
\* below 2^(28 + top).
Room(H, top, most) ==
    IF H < 2 ^ (top - 16) /\ 16 <= most THEN 16
    ELSE IF H < 2 ^ (top - 8) /\ 8 <= most THEN 8
    ELSE IF H < 2 ^ (top - 4) /\ 4 <= most THEN 4
    ELSE IF H < 2 ^ (top - 2) /\ 2 <= most THEN 2
    ELSE 1

\* <<e, H, L>> with the significand shifted left by k bits.
Raised(e, H, L, k) == <<e - k>> \o ShiftLeft(H, L, k)

\* The f64 nearest to (-1)^s * (H * 2^28 + L) * 2^e, the last bit of L
\* being sticky (H < 2^30).
RECURSIVE RoundPack(_, _, _, _)
RoundPack(s, e, H, L) ==
    IF H = 0 /\ L = 0 THEN <<s, MinExp, 0, 0>>
    ELSE IF H >= Limb
    THEN LET w == ShiftRightJam(H, L, 1) IN RoundPack(s, e + 1, w[1], w[2])
    ELSE IF e < MinExp - 3
    THEN LET w == ShiftRightJam(H, L, MinExp - 3 - e)
         IN RoundBits(s, MinExp - 3, w[1], w[2])
    ELSE IF H >= Limb \div 2 \/ e = MinExp - 3 THEN RoundBits(s, e, H, L)
    ELSE IF H = 0 /\ e - 28 >= MinExp - 3 THEN RoundPack(s, e - 28, L, 0)
    ELSE LET w == Raised(e, H, L, Room(H, 28, e - (MinExp - 3)))
         IN RoundPack(s, w[1], w[2], w[3])

\* The integer n as an f64 (|n| < 2^28).
FromInt(n) == IF n < 0 THEN RoundPack(1, 0, 0, -n) ELSE RoundPack(0, 0, 0, n)

\* <<e, h, l>> of the finite nonzero a with the significand shifted up to
\* 53 bits (a subnormal value is not stored that way).
RECURSIVE Normal(_, _, _)
Normal(e, h, l) ==
    IF h >= 2 ^ 24 THEN <<e, h, l>>
    ELSE LET w == Raised(e, h, l, IF h = 0 THEN 24 ELSE Room(h, 25, 16))
         IN Normal(w[1], w[2], w[3])

RNeg(a) == IF IsNaN(a) THEN a ELSE <<1 - a[1], a[2], a[3], a[4]>>

\* |a| + |b| with sign s, for finite a, b with |a| >= |b|.
AddMag(s, a, b) ==
    LET wa == Wide(a)
        wb == ShiftRightJam(Wide(b)[1], Wide(b)[2], a[2] - b[2])
        lo == wa[2] + wb[2]
    IN RoundPack(s, a[2] - 3, wa[1] + wb[1] + lo \div Limb, lo % Limb)

\* |a| - |b| with sign s, for finite a, b with |a| > |b|.
SubMag(s, a, b) ==
    LET wa == Wide(a)
        wb == ShiftRightJam(Wide(b)[1], Wide(b)[2], a[2] - b[2])
        lo == wa[2] - wb[2]
    IN IF lo < 0 THEN RoundPack(s, a[2] - 3, wa[1] - wb[1] - 1, lo + Limb)
       ELSE RoundPack(s, a[2] - 3, wa[1] - wb[1], lo)

\* a + b
RAdd(a, b) ==
    IF IsNaN(a) \/ IsNaN(b) THEN NaN
    ELSE IF IsInf(a) THEN (IF IsInf(b) /\ b # a THEN NaN ELSE a)
    ELSE IF IsInf(b) THEN b
    ELSE IF a[1] = b[1]
    THEN (IF MagLess(a, b) THEN AddMag(a[1], b, a) ELSE AddMag(a[1], a, b))
    ELSE IF MagLess(a, b) THEN SubMag(b[1], b, a)
    ELSE IF MagLess(b, a) THEN SubMag(a[1], a, b)
    ELSE Zero

\* a - b
RSub(a, b) == RAdd(a, RNeg(b))

\* The limbs of 14 bits of the 53-bit significand h * 2^28 + l, lowest first.
Limbs(h, l) == <<l % HalfLimb, l \div HalfLimb, h % HalfLimb, h \div HalfLimb>>

\* The product of two 53-bit significands (limbs x and y) shifted right by 50
\* bits, the last bit sticky: 55 or 56 bits as <<H, L>>.
MulWide(x, y) ==
    LET t0 == x[1] * y[1]
        t1 == x[1] * y[2] + x[2] * y[1] + t0 \div HalfLimb
        t2 == x[1] * y[3] + x[2] * y[2] + x[3] * y[1] + t1 \div HalfLimb
        t3 == x[1] * y[4] + x[2] * y[3] + x[3] * y[2] + x[4] * y[1] + t2 \div HalfLimb
        t4 == x[2] * y[4] + x[3] * y[3] + x[4] * y[2] + t3 \div HalfLimb
        t5 == x[3] * y[4] + x[4] * y[3] + t4 \div HalfLimb
        t6 == x[4] * y[4] + t5 \div HalfLimb
        c3 == t3 % HalfLimb
        c4 == t4 % HalfLimb
        c5 == t5 % HalfLimb
        c6 == t6 % HalfLimb
        c7 == t6 \div HalfLimb
        sticky == t0 % HalfLimb # 0 \/ t1 % HalfLimb # 0 \/ t2 % HalfLimb # 0
                  \/ c3 % 256 # 0
    IN <<(c5 \div 256) + c6 * 64 + c7 * 2 ^ 20,
         Jam((c3 \div 256) + c4 * 64 + (c5 % 256) * 2 ^ 20, sticky)>>

\* a * b
RMul(a, b) ==
    IF IsNaN(a) \/ IsNaN(b) THEN NaN
    ELSE IF IsInf(a) \/ IsInf(b)
    THEN (IF IsZero(a) \/ IsZero(b) THEN NaN
          ELSE <<(a[1] + b[1]) % 2, SpecialExp, 0, 0>>)
    ELSE IF IsZero(a) \/ IsZero(b) THEN <<(a[1] + b[1]) % 2, MinExp, 0, 0>>
    ELSE LET na == Normal(a[2], a[3], a[4])
             nb == Normal(b[2], b[3], b[4])
             w == MulWide(Limbs(na[2], na[3]), Limbs(nb[2], nb[3]))
         IN RoundPack((a[1] + b[1]) % 2, na[1] + nb[1] + 50, w[1], w[2])

\* One digit of 11 bits of the long division by y = yh * 2^28 + yl, a 53-bit
\* significand, for the remainder r = rh * 2^28 + rl < y: <<t, h, l>> with
\* t = floor(r * 2^11 / y) and h * 2^28 + l = r * 2^11 - t * y.  The digit is
\* estimated from the leading 20 bits of r and of y, which is at most one too
\* low; r * 2^11 and t * y are formed modulo 2^56, their difference being
\* below 2^54.
DivDigit(rh, rl, yh, yl) ==
    LET t == ((rh \div 32) * 2048) \div ((yh \div 32) + 1)
        al == (rl % 2 ^ 17) * 2048
        ah == (rh % 2 ^ 17) * 2048 + rl \div 2 ^ 17
        p0 == t * (yl % HalfLimb)
        p1 == t * (yl \div HalfLimb)
        p2 == t * (yh % HalfLimb)
        p3 == t * (yh \div HalfLimb)
        b0 == p0 + (p1 % HalfLimb) * HalfLimb
        bl == b0 % Limb
        bh == (p1 \div HalfLimb + p2 + (p3 % HalfLimb) * HalfLimb + b0 \div Limb) % Limb
        dl == IF al < bl THEN al - bl + Limb ELSE al - bl
        dh == (ah - bh - (IF al < bl THEN 1 ELSE 0) + Limb) % Limb
    IN IF dh > yh \/ (dh = yh /\ dl >= yl)
       THEN (IF dl >= yl THEN <<t + 1, dh - yh, dl - yl>>
             ELSE <<t + 1, dh - yh - 1, dl - yl + Limb>>)
       ELSE <<t, dh, dl>>

\* The quotient q = qh * 2^28 + ql so far and the remainder r of the division
\* by y, continued by n digits; the last bit of the result is sticky.
RECURSIVE DivDigits(_, _, _, _, _, _, _)
DivDigits(qh, ql, rh, rl, yh, yl, n) ==
    IF n = 0 THEN <<qh, Jam(ql, rh # 0 \/ rl # 0)>>
    ELSE LET d == DivDigit(rh, rl, yh, yl)
         IN DivDigits(qh * 2048 + ql \div 2 ^ 17, (ql % 2 ^ 17) * 2048 + d[1],
                      d[2], d[3], yh, yl, n - 1)

\* floor(x * 2^55 / y) for 53-bit significands x, y (<<h, l>>), the last bit
\* sticky: 55 or 56 bits as <<H, L>>, from the leading bit and five digits.
DivWide(x, y) ==
    IF x[1] > y[1] \/ (x[1] = y[1] /\ x[2] > y[2])
    THEN (IF x[2] >= y[2] THEN DivDigits(0, 1, x[1] - y[1], x[2] - y[2], y[1], y[2], 5)
          ELSE DivDigits(0, 1, x[1] - y[1] - 1, x[2] - y[2] + Limb, y[1], y[2], 5))
    ELSE IF x = y THEN DivDigits(0, 1, 0, 0, y[1], y[2], 5)
    ELSE DivDigits(0, 0, x[1], x[2], y[1], y[2], 5)

\* a / b
RDiv(a, b) ==
    IF IsNaN(a) \/ IsNaN(b) THEN NaN
    ELSE IF IsInf(a)
    THEN (IF IsInf(b) THEN NaN ELSE <<(a[1] + b[1]) % 2, SpecialExp, 0, 0>>)
    ELSE IF IsInf(b) THEN <<(a[1] + b[1]) % 2, MinExp, 0, 0>>
    ELSE IF IsZero(b)
    THEN (IF IsZero(a) THEN NaN ELSE <<(a[1] + b[1]) % 2, SpecialExp, 0, 0>>)
    ELSE IF IsZero(a) THEN <<(a[1] + b[1]) % 2, MinExp, 0, 0>>
    ELSE LET na == Normal(a[2], a[3], a[4])
             nb == Normal(b[2], b[3], b[4])
             w == DivWide(<<na[2], na[3]>>, <<nb[2], nb[3]>>)
         IN RoundPack((a[1] + b[1]) % 2, na[1] - nb[1] - 55, w[1], w[2])

\* The f64 written as the decimal n/d (d a power of ten) or computed as n / d.
R(n, d) == RDiv(FromInt(n), FromInt(d))

\* a < b for values that are not NaN.
RLess(a, b) ==
    IF IsZero(a) /\ IsZero(b) THEN FALSE
    ELSE IF a[1] # b[1] THEN a[1] = 1
    ELSE IF a[1] = 0 THEN MagLess(a, b)
    ELSE MagLess(b, a)

\* f64::partial_cmp
partial_cmp(a, b) ==
    IF IsNaN(a) \/ IsNaN(b) THEN "None"
    ELSE IF RLess(a, b) THEN "Less"
    ELSE IF RLess(b, a) THEN "Greater"
    ELSE "Equal"

RGt(a, b) == partial_cmp(a, b) = "Greater"
RLeq(a, b) == partial_cmp(a, b) \in {"Less", "Equal"}

----------------------------------------------------------------------------
\* Inputs.

OptionNames == <<"a", "b", "c", "d", "e", "f">>

\* vec!['a', 'b', ...] of length n.
OptionsOf(n) == [o \in 0..(n - 1) |-> OptionNames[o + 1]]

\* The weight of option o in the row 1/2, 1/4, ..., whose last two weights are equal.
Halving(n, o) == R(1, 2 ^ (IF o + 1 < n - 1 THEN o + 1 ELSE n - 1))

\* Weight rows a caller may store: all zero, the halving row with the first
\* or the last option zeroed, and the halving row with -0.0 for the last option.
WeightRows(n) ==
    {[o \in 0..(n - 1) |-> Zero]}
    \cup {[o \in 0..(n - 1) |-> IF o = z THEN Zero ELSE Halving(n, o)] : z \in {0, n - 1}}
    \cup {[o \in 0..(n - 1) |-> IF o = n - 1 THEN NegZero ELSE Halving(n, o)]}

\* The row of decision d of the randoms the tests store: tenths,
\* 0.1,0.2,0.3 / 0.4,0.5,0.6 / 0.7,0.8,0.9 for n = 3.
AscendingRow(n, d) == [o \in 0..(n - 1) |-> R(((d * n + o) % 9) + 1, 10)]

\* Draws of random::<f64>(), which are multiples of 2^-53 in [0, 1).
RandomDraws == {Zero, R(7, 8)}

\* Matrices of draws, lines 24-26: every cell of every row is a draw of its own.
RandomMatrices(n, size) ==
    [0..(size - 1) -> [0..(n - 1) -> RandomDraws]]

\* Heterogeneities a caller may store: none and the default 0.1.
HetVals == {Zero, R(1, 10)}

----------------------------------------------------------------------------
\* The methods of Statfeed<T>, on the current state.

N == Cardinality(DOMAIN options)
M == Cardinality(DOMAIN decisions)

is_acceptable(el, idx) == TRUE

true_increment(decision, option) ==
    RDiv(accents[decision], weights[decision][option])

expected_increment(decision, option) ==
    RDiv(RAdd(accents[decision],
              RMul(heterogeneities[decision], randoms[decision][option])),
         weights[decision][option])

\* Faulty variant: the running statistic left out of the scheduling value.
scheduling_values_no_statistics(decision) ==
    [m \in 0..(N - 1) |-> expected_increment(decision, m)]

scheduling_values(decision) ==
    [m \in 0..(N - 1) |-> RAdd(statistics[m], expected_increment(decision, m))]

\* The comparator of sort_by: v.partial_cmp(v2).unwrap_or(Ordering::Equal).
cmp_vals(v, v2) ==
    IF partial_cmp(v, v2) = "None" THEN "Equal" ELSE partial_cmp(v, v2)

\* Faulty variant: an insertion that puts x in front of the options of equal
\* value (the sort is no longer stable).
RECURSIVE InsertSorted_before_equal(_, _, _)
InsertSorted_before_equal(vals, s, x) ==
    IF s = <<>> \/ cmp_vals(vals[x], vals[s[Len(s)]]) = "Greater"
    THEN Append(s, x)
    ELSE Append(InsertSorted_before_equal(vals, SubSeq(s, 1, Len(s) - 1), x), s[Len(s)])

\* One insertion of the stable sort into the sorted prefix s: option x goes
\* behind every option whose value its own value is not less than.
RECURSIVE InsertSorted(_, _, _)
InsertSorted(vals, s, x) ==
    IF s = <<>> \/ cmp_vals(vals[x], vals[s[Len(s)]]) # "Less"
    THEN Append(s, x)
    ELSE Append(InsertSorted(vals, SubSeq(s, 1, Len(s) - 1), x), s[Len(s)])

RECURSIVE SortFrom(_, _, _)
SortFrom(vals, k, acc) ==
    IF k \notin DOMAIN vals THEN acc
    ELSE SortFrom(vals, k + 1, InsertSorted(vals, acc, k))

\* The length up to which sort_by is the insertion sort above.  A longer
\* slice is sorted another way: into the same stable order when the
\* comparator is a total order on it; otherwise the order is unspecified and
\* the call may panic.
SmallSort == 20

\* The comparator is a total order on vals: no value is NaN, which it makes
\* equal to every value, or all values are equal under it.
TotalOrder(vals) ==
    \/ \A k \in DOMAIN vals : ~IsNaN(vals[k])
    \/ \A j, k \in DOMAIN vals : cmp_vals(vals[j], vals[k]) = "Equal"

\* sort_by is given more than SmallSort values that the comparator does not
\* order: it may panic, and the order it may return is unspecified.
sort_panics(vals) == Cardinality(DOMAIN vals) > SmallSort /\ ~TotalOrder(vals)

\* The orders of n options, each option once.
Orders(n) ==
    {s \in [1..n -> 0..(n - 1)] : \A j, k \in 1..n : j # k => s[j] # s[k]}

\* Faulty variant: the comparison reversed (v2.partial_cmp(v)), a descending sort.
sort_options_descending(vals) ==
    IF sort_panics(vals) THEN Orders(Cardinality(DOMAIN vals))
    ELSE {SortFrom([k \in DOMAIN vals |-> RNeg(vals[k])], 0, <<>>)}

\* The options zipped with vals, stably sorted by value: the set of the orders
\* the call may return, one order unless sort_panics(vals).  Each &T is
\* modelled by the index of the option it refers to; element k of the
\* returned Vec is element k + 1 of the sequence.
sort_options(vals) ==
    IF sort_panics(vals) THEN Orders(Cardinality(DOMAIN vals))
    ELSE {SortFrom(vals, 0, <<>>)}

\* Iterator::position: the first index whose element satisfies the predicate;
\* None is modelled by -1.
position(sorted, d) ==
    LET hits == {k \in 0..(Len(sorted) - 1) : is_acceptable(options[sorted[k + 1]], d)}
    IN IF hits = {} THEN -1
       ELSE CHOOSE k \in hits : \A j \in hits : k <= j

\* Lines 49-51 for the scheduling values vals of decision d, when no panic
\* ends them: the pairs <<option, index>> of options[index] (as an option
\* index) and index = position(..).unwrap().  Where the order is unspecified
\* every option stands first in one of the orders, and is_acceptable takes
\* the first.
Picks(vals, d) ==
    IF sort_panics(vals)
    THEN {<<o, 0>> : o \in {p \in DOMAIN vals : is_acceptable(options[p], d)}}
    ELSE {<<sorted[position(sorted, d) + 1], position(sorted, d)>> :
            sorted \in {t \in sort_options(vals) : position(t, d) # -1}}

\* Lines 49-50 may panic: in sort_by, or in unwrap() of None.
Panics(vals, d) ==
    IF sort_panics(vals) THEN TRUE
    ELSE \E sorted \in sort_options(vals) : position(sorted, d) = -1

\* Faulty variant: the statistic raised by the perturbed increment
\* (expected_increment) instead of the true one.
increment_statistics_expected(d, idx) ==
    [statistics EXCEPT ![idx] = RAdd(@, expected_increment(d, idx))]

increment_statistics(d, idx) ==
    [statistics EXCEPT ![idx] = RAdd(@, true_increment(d, idx))]

RECURSIVE FoldSum(_, _, _)
FoldSum(row, k, a) ==
    IF k \notin DOMAIN row THEN a ELSE FoldSum(row, k + 1, RAdd(a, row[k]))

\* Faulty variant: the weight total and accent of the first decision used
\* for every decision.
normalization_value_first_row(idx) ==
    RDiv(accents[0], FoldSum(weights[0], 0, Zero))

normalization_value(idx) ==
    RDiv(accents[idx], FoldSum(weights[idx], 0, Zero))

\* normalization_value(dec) is the same at every turn of the loop: computed once.
normalize_statistics(d) ==
    CHOOSE st \in {[idx \in DOMAIN statistics |->
                      IF RGt(weights[d][idx], Zero)
                      THEN RSub(statistics[idx], nv)
                      ELSE statistics[idx]] : nv \in {normalization_value(d)}} : TRUE

\* increment_statistics and normalize_statistics as functions of the
\* statistics st they start from.
IncrementOf(st, d, idx) ==
    [st EXCEPT ![idx] = RAdd(@, true_increment(d, idx))]

NormalizeOf(st, d, nv) ==
    [o \in DOMAIN st |->
        IF RGt(weights[d][o], Zero) THEN RSub(st[o], nv) ELSE st[o]]

\* The rest of the loop body once pick = <<option, index>> is found: the
\* pair of the option picked (as an index) and the statistics after increment
\* and normalization.
SettleOf(st, d, pick) ==
    <<pick[1], NormalizeOf(IncrementOf(st, d, pick[2]), d, normalization_value(d))>>

\* The loop body of populate_choices as a function of the statistics st it
\* starts from, for the rows of decision d: the set of its results, one
\* unless the order of the sort is unspecified, none when it can only panic.
LoopBody(st, d) ==
    {SettleOf(st, d, pick) :
        pick \in UNION {Picks(vals, d) :
                          vals \in {[m \in 0..(N - 1) |->
                                       RAdd(st[m], expected_increment(d, m))]}}}

\* The loop of populate_choices run for the decisions k, k+1, ..., n-1 over
\* the rows of the selector repeated (decision k uses the rows of k mod M):
\* the set of the pairs of the final statistics and the picks appended to
\* acc, over the runs that return.
RECURSIVE LoopFrom(_, _, _, _)
LoopNext(r, k, n, acc) == LoopFrom(r[2], k + 1, n, Append(acc, options[r[1]]))

LoopFrom(st, k, n, acc) ==
    IF k >= n THEN {<<st, acc>>}
    ELSE UNION {LoopNext(r, k, n, acc) : r \in LoopBody(st, k % M)}

----------------------------------------------------------------------------
\* State machine.

Init ==
    /\ randoms = <<>>
    /\ weights = <<>>
    /\ choices = <<>>
    /\ heterogeneities = <<>>
    /\ accents = <<>>
    /\ statistics = <<>>
    /\ decisions = <<>>
    /\ options = <<>>
    /\ pc = "new"
    /\ dec = 0
    /\ index = 0
    /\ calls = 0
    /\ sel = 1
    /\ first = <<>>

\* Faulty variant: new with every default weight 1.0, as the comment above
\* the weights in new has it, instead of 1/options.len().
new_unit_weights ==
    /\ pc = "new"
    /\ \E n \in 0..MaxOptions, size \in 0..MaxSize :
        /\ options' = OptionsOf(n)
        /\ weights' = [d \in 0..(size - 1) |-> [o \in 0..(n - 1) |-> FromInt(1)]]
        /\ randoms' \in RandomMatrices(n, size)
        /\ heterogeneities' = [d \in 0..(size - 1) |-> R(1, 10)]
        /\ accents' = [d \in 0..(size - 1) |-> FromInt(1)]
        /\ statistics' = [o \in 0..(n - 1) |-> Zero]
        /\ choices' = <<>>
        /\ decisions' = [d \in 0..(size - 1) |-> d]
    /\ pc' = "ready"
    /\ UNCHANGED <<dec, index, calls, sel, first>>

\* Statfeed::new(options, size); the random source supplies every cell of randoms.
new ==
    /\ pc = "new"
    /\ \E n \in 0..MaxOptions, size \in 0..MaxSize :
        /\ options' = OptionsOf(n)
        /\ weights' = [d \in 0..(size - 1) |-> [o \in 0..(n - 1) |-> R(1, n)]]
        /\ randoms' \in RandomMatrices(n, size)
        /\ heterogeneities' = [d \in 0..(size - 1) |-> R(1, 10)]
        /\ accents' = [d \in 0..(size - 1) |-> FromInt(1)]
        /\ statistics' = [o \in 0..(n - 1) |-> Zero]
        /\ choices' = <<>>
        /\ decisions' = [d \in 0..(size - 1) |-> d]
    /\ pc' = "ready"
    /\ UNCHANGED <<dec, index, calls, sel, first>>

\* The caller overwrites the rows of the public field weights with one row,
\* from the first or from the second decision on, once, before the first run.
SetWeights ==
    /\ pc = "ready" /\ calls = 0 /\ sel = 1
    /\ \E w \in {R(1, N)} :
          \A d \in DOMAIN weights : \A o \in DOMAIN options : weights[d][o] = w
    /\ \E d \in {0, 1} \cap DOMAIN weights, row \in WeightRows(N) :
        weights' = [e \in DOMAIN weights |-> IF e >= d THEN row ELSE weights[e]]
    /\ UNCHANGED <<randoms, choices, heterogeneities, accents, statistics,
                   decisions, options, pc, dec, index, calls, sel, first>>

\* The caller overwrites the public field randoms before the first run, as
\* setup() of the tests does.
SetRandoms ==
    /\ pc = "ready" /\ calls = 0 /\ sel = 1
    /\ randoms' = [d \in DOMAIN randoms |-> AscendingRow(N, d)]
    /\ UNCHANGED <<weights, choices, heterogeneities, accents, statistics,
                   decisions, options, pc, dec, index, calls, sel, first>>

\* The caller overwrites the public field heterogeneities with vec![h; size].
SetHeterogeneities ==
    /\ pc = "ready" /\ calls = 0 /\ sel = 1
    /\ \E h \in HetVals :
        heterogeneities' = [d \in DOMAIN heterogeneities |-> h]
    /\ UNCHANGED <<randoms, weights, choices, accents, statistics,
                   decisions, options, pc, dec, index, calls, sel, first>>

\* Faulty variant: the entry of populate_choices without self.choices.clear().
populate_choices_no_clear ==
    /\ pc = "ready" /\ calls < (IF sel = 1 THEN MaxCalls ELSE 1)
    /\ dec' = 0
    /\ calls' = calls + 1
    /\ pc' = "eval"
    /\ UNCHANGED <<randoms, weights, choices, heterogeneities, accents, statistics,
                   decisions, options, index, sel, first>>

\* Faulty variant: the entry of populate_choices also zeroes statistics.
populate_choices_reset ==
    /\ pc = "ready" /\ calls < (IF sel = 1 THEN MaxCalls ELSE 1)
    /\ choices' = <<>>
    /\ statistics' = [o \in DOMAIN options |-> Zero]
    /\ dec' = 0
    /\ calls' = calls + 1
    /\ pc' = "eval"
    /\ UNCHANGED <<randoms, weights, heterogeneities, accents,
                   decisions, options, index, sel, first>>

\* populate_choices, entry: self.choices.clear() and the loop starts at 0.
populate_choices ==
    /\ pc = "ready" /\ calls < (IF sel = 1 THEN MaxCalls ELSE 1)
    /\ choices' = <<>>
    /\ dec' = 0
    /\ calls' = calls + 1
    /\ pc' = "eval"
    /\ UNCHANGED <<randoms, weights, heterogeneities, accents, statistics,
                   decisions, options, index, sel, first>>

\* Faulty variant: the loop body draws the row of randoms of its decision afresh
\* before it evaluates the decision.
Evaluate_redraw ==
    /\ pc = "eval" /\ dec < M
    /\ \E up \in BOOLEAN :
       \E row \in {[o \in 0..(N - 1) |-> IF up THEN R(o % 8, 8) ELSE R(7 - (o % 8), 8)]} :
       \E vals \in {[m \in 0..(N - 1) |->
                        RAdd(statistics[m],
                             RDiv(RAdd(accents[dec], RMul(heterogeneities[dec], row[m])),
                                  weights[dec][m]))]} :
       \E pick \in Picks(vals, dec) :
           /\ choices' = Append(choices, options[pick[1]])
           /\ index' = pick[2]
           /\ randoms' = [randoms EXCEPT ![dec] = row]
    /\ pc' = "increment"
    /\ UNCHANGED <<weights, heterogeneities, accents, statistics,
                   decisions, options, dec, calls, sel, first>>

\* Faulty variant: the pick is inserted at the front of choices instead of pushed.
Evaluate_prepend ==
    /\ pc = "eval" /\ dec < M
    /\ \E vals \in {scheduling_values(dec)} :
       \E pick \in Picks(vals, dec) :
          /\ choices' = <<options[pick[1]]>> \o choices
          /\ index' = pick[2]
    /\ pc' = "increment"
    /\ UNCHANGED <<randoms, weights, heterogeneities, accents, statistics,
                   decisions, options, dec, calls, sel, first>>

\* Loop body, lines 48-53: sort, find the first acceptable, push its clone;
\* one successor for each order sort_by can return.
Evaluate ==
    /\ pc = "eval" /\ dec < M
    /\ \E vals \in {scheduling_values(dec)} :
       \E pick \in Picks(vals, dec) :
          /\ choices' = Append(choices, options[pick[1]])
          /\ index' = pick[2]
    /\ pc' = "increment"
    /\ UNCHANGED <<randoms, weights, heterogeneities, accents, statistics,
                   decisions, options, dec, calls, sel, first>>

\* Loop body, lines 49-50: sort_by panics, or unwrap() of None does.
EvaluatePanic ==
    /\ pc = "eval" /\ dec < M
    /\ \E vals \in {scheduling_values(dec)} : Panics(vals, dec)
    /\ pc' = "panic"
    /\ UNCHANGED <<randoms, weights, choices, heterogeneities, accents,
                   statistics, decisions, options, dec, index, calls, sel, first>>

\* Loop body, line 54.
Increment ==
    /\ pc = "increment"
    /\ statistics' = increment_statistics(dec, index)
    /\ pc' = "normalize"
    /\ UNCHANGED <<randoms, weights, choices, heterogeneities, accents,
                   decisions, options, dec, index, calls, sel, first>>

\* Loop body, line 55, and the step to the next decision.
Normalize ==
    /\ pc = "normalize"
    /\ statistics' = normalize_statistics(dec)
    /\ dec' = dec + 1
    /\ pc' = "eval"
    /\ UNCHANGED <<randoms, weights, choices, heterogeneities, accents,
                   decisions, options, index, calls, sel, first>>

\* Loop exit: populate_choices returns.
Return ==
    /\ pc = "eval" /\ dec = M
    /\ pc' = "ready"
    /\ first' = IF sel = 1 /\ calls = 1 THEN <<choices, statistics>> ELSE first
    /\ UNCHANGED <<randoms, weights, choices, heterogeneities, accents,
                   statistics, decisions, options, dec, index, calls, sel>>

\* A second selector is built by new with the same options and size and
\* given the same public fields as the first: everything equal, statistics
\* zero, choices empty.  It is run once, after the first run of the first.
Twin ==
    /\ pc = "ready" /\ sel = 1 /\ calls = 1
    /\ sel' = 2
    /\ calls' = 0
    /\ statistics' = [o \in DOMAIN options |-> Zero]
    /\ choices' = <<>>
    /\ UNCHANGED <<randoms, weights, heterogeneities, accents, decisions,
                   options, pc, dec, index, first>>

Next ==
    \/ new
    \/ SetWeights
    \/ SetRandoms
    \/ SetHeterogeneities
    \/ populate_choices
    \/ Evaluate
    \/ EvaluatePanic
    \/ Increment
    \/ Normalize
    \/ Return
    \/ Twin

Spec == Init /\ [][Next]_vars

----------------------------------------------------------------------------
\* Vocabulary of the properties.

\* 1.0e-10
Delta == RDiv(FromInt(1), RMul(FromInt(100000), FromInt(100000)))

\* assert_in_delta(left, right, 1.0e-10) of the tests: (left - right).abs() < delta.
InDelta(left, right) ==
    \E diff \in {RSub(left, right)} :
        ~IsNaN(diff) /\ RLess(<<0, diff[2], diff[3], diff[4]>>, Delta)

\* The index of the option whose value is v (option values are distinct).
OptionIndex(v) == CHOOSE o \in DOMAIN options : options[o] = v

\* The option recorded last in choices, as an option index.
Picked == OptionIndex(choices[Len(choices)])

\* statistics[o] + (accents[d] + heterogeneities[d] * randoms[d][o]) / weights[d][o]
Value(d, o) ==
    RAdd(statistics[o],
         RDiv(RAdd(accents[d], RMul(heterogeneities[d], randoms[d][o])),
              weights[d][o]))

RefRandoms ==
    [d \in 0..2 |-> [o \in 0..2 |-> R(3 * d + o + 1, 10)]]

\* Options a, b, c; three decisions; default weights, accents and
\* heterogeneities; randoms 0.1 .. 0.9 row by row.
RefWeights == [d \in 0..2 |-> [o \in 0..2 |-> R(1, 3)]]

RefHeterogeneities == [d \in 0..2 |-> R(1, 10)]

IsReference ==
    /\ pc # "new"
    /\ options = [o \in 0..2 |-> <<"a", "b", "c">>[o + 1]]
    /\ M = 3
    /\ weights = RefWeights
    /\ accents = [d \in 0..2 |-> FromInt(1)]
    /\ heterogeneities = RefHeterogeneities
    /\ randoms = RefRandoms

ZeroStatistics == statistics = [o \in DOMAIN options |-> Zero]

\* The call of populate_choices has returned.
Returned == pc = "ready" /\ calls >= 1

\* Decision dec has just been evaluated: its pick is the last element of
\* choices and statistics is still the vector the evaluation read.
Evaluated == pc = "increment"

\* a is a number greater than zero.
IsPositive(a) == ~IsNaN(a) /\ ~IsZero(a) /\ a[1] = 0

IsZeroWeight(d, o) == IsZero(weights[d][o])

AllZeroWeights(d) == \A o \in DOMAIN options : IsZeroWeight(d, o)

\* 1.0 / n as f64, for every number n of options.
Uniform == [n \in 1..MaxOptions |-> R(1, n)]

\* 0.1f64
Tenth == R(1, 10)

DefaultWeights ==
    \A d \in DOMAIN weights : \A o \in DOMAIN options : weights[d][o] = Uniform[N]

\* How often option value v occurs in choices.
Count(v) == Cardinality({k \in 1..Len(choices) : choices[k] = v})

\* max(statistics) - min(statistics), for finite statistics.
Spread ==
    LET hi == CHOOSE a \in DOMAIN statistics :
                  \A b \in DOMAIN statistics : RLeq(statistics[b], statistics[a])
        lo == CHOOSE a \in DOMAIN statistics :
                  \A b \in DOMAIN statistics : RLeq(statistics[a], statistics[b])
    IN RSub(statistics[hi], statistics[lo])

\* The sum of the elements k, k+1, ... of a vector, added from the far end.
RECURSIVE SumFrom(_, _)
SumFrom(row, k) ==
    IF k \notin DOMAIN row THEN Zero ELSE RAdd(row[k], SumFrom(row, k + 1))

----------------------------------------------------------------------------
\* C1: the option appended to choices for a decision has a minimal scheduling
\* value among all options, computed from the statistics the evaluation read;
\* on the reference configuration the first run yields choices a, b, b.
C1_MinimalPick ==
    /\ Evaluated =>
          /\ Len(choices) = dec + 1
          /\ \E vals \in {[o \in DOMAIN options |-> Value(dec, o)]} :
                \A o \in DOMAIN options : RLeq(vals[Picked], vals[o])
    /\ (Returned /\ calls = 1 /\ IsReference) => choices = <<"a", "b", "b">>

C1_Witness ==
    /\ IsReference /\ Returned /\ calls = 1 /\ sel = 1
    /\ choices = <<"a", "b", "b">>

\* C2: the increment of a decision adds accents[d] / weights[d][o*] to the
\* statistic of the option o* that was picked, and changes no other statistic.
C2_IncrementsPicked ==
    [][pc = "increment" =>
          statistics' = [statistics EXCEPT
                            ![Picked] = RAdd(@, RDiv(accents[dec], weights[dec][Picked]))]]_vars

\* C3: with default weights, accents and heterogeneities, after a run from
\* zero statistics the numbers of occurrences of any two options in choices
\* differ by at most one.
C3_EvenCounts ==
    (Returned /\ calls = 1 /\ DefaultWeights
        /\ \A d \in DOMAIN heterogeneities : heterogeneities[d] = Tenth)
    => \A a, b \in DOMAIN options : Count(options[a]) - Count(options[b]) <= 1

\* C4: at a decision where some option has positive weight (no weight and no
\* heterogeneity is less than 0), the option recorded in choices does not
\* have a weight equal to 0 at that decision.
C4_ZeroWeightExcluded ==
    (/\ Evaluated
     /\ \E o \in DOMAIN options : IsPositive(weights[dec][o])
     /\ \A o \in DOMAIN options : ~RLess(weights[dec][o], Zero)
     /\ ~RLess(heterogeneities[dec], Zero))
    => ~IsZeroWeight(dec, Picked)

\* C5: with the default weight rows and one heterogeneity for all decisions,
\* the spread of statistics after each settled decision stays within
\* N * (accent + heterogeneity), whatever the number of decisions settled.
C5_BoundedSpread ==
    (pc = "eval" /\ N >= 1 /\ M >= 1 /\ DefaultWeights)
    => RLeq(Spread, RMul(FromInt(N), RAdd(accents[0], heterogeneities[0])))

\* C6: after every completed call on a selector with at least one option,
\* choices has exactly size elements, all of them option values, also on a
\* second call; a call never panics; with size 0 choices is empty and
\* statistics is still zero.
C6_LengthInvariant ==
    /\ (N >= 1) => pc # "panic"
    /\ (Returned /\ N >= 1) =>
          /\ Len(choices) = M
          /\ \A k \in 1..Len(choices) : \E o \in DOMAIN options : choices[k] = options[o]
    /\ (Returned /\ M = 0) => (choices = <<>> /\ ZeroStatistics)

C6_Witness ==
    /\ Returned /\ sel = 1 /\ calls = 2 /\ N >= 2 /\ M >= 2
    /\ Len(choices) = M

\* C7: for every decision d, as the run comes to evaluate it, and every
\* option o, scheduling_values(d)[o] is
\* statistics[o] + (accents[d] + heterogeneities[d] * randoms[d][o]) / weights[d][o]
\* in f64 operations, expected_increment(d, o) is the second term and
\* true_increment(d, o) is accents[d] / weights[d][o]; on the reference
\* configuration with zero statistics true_increment(0, 0) is 3.0,
\* expected_increment(0, 0) is 3.03 and scheduling_values(0) is
\* [3.03, 3.06, 3.09], each within 1e-10 as the tests assert.
C7_SchedulingValues ==
    /\ (pc = "eval" /\ dec < M) =>
          \E vals \in {scheduling_values(dec)} :
              /\ DOMAIN vals = DOMAIN options
              /\ \A o \in DOMAIN options :
                    \E term \in {RDiv(RAdd(accents[dec],
                                            RMul(heterogeneities[dec], randoms[dec][o])),
                                       weights[dec][o])} :
                        /\ vals[o] = RAdd(statistics[o], term)
                        /\ expected_increment(dec, o) = term
                        /\ true_increment(dec, o) = RDiv(accents[dec], weights[dec][o])
    /\ (ZeroStatistics /\ IsReference) =>
          /\ InDelta(FromInt(3), true_increment(0, 0))
          /\ InDelta(R(303, 100), expected_increment(0, 0))
          /\ \A o \in 0..2 : InDelta(R(303 + 3 * o, 100), scheduling_values(0)[o])

\* The reference configuration after its second decision: statistics are no
\* longer zero.
C7_Witness ==
    /\ IsReference /\ pc = "eval" /\ dec = 2 /\ ~ZeroStatistics
    /\ scheduling_values(2)[1] = Value(2, 1)

\* C8: when every option has zero weight at a decision, no option is recorded
\* for that decision and the call does not return normally.
C8_AllZeroFails ==
    /\ \A d \in DOMAIN decisions : (pc # "new" /\ AllZeroWeights(d) /\ N >= 1) => Len(choices) <= d
    /\ (Returned /\ N >= 1) => \A d \in DOMAIN decisions : ~AllZeroWeights(d)

\* C9: no selector with zero options is ever constructed.
C9_NoEmptySelector ==
    (pc # "new") => N >= 1

\* C10: a second selector with the same options, weights, randoms,
\* heterogeneities and accents, run once from zero statistics, ends with the
\* choices and the statistics the first selector had after its first run.
C10_Deterministic ==
    (sel = 2 /\ Returned) => (choices = first[1] /\ statistics = first[2])

C10_Witness ==
    /\ sel = 2 /\ Returned /\ N >= 2 /\ M >= 2
    /\ choices = first[1] /\ statistics = first[2]
    /\ \E k \in 1..Len(choices) : choices[k] # choices[1]

\* The step leads to the state new leaves behind: weights and randoms of
\* shape M x N, heterogeneities and accents of length M, statistics of length
\* N, every weight 1/N, every accent 1.0, every heterogeneity 0.1, every
\* statistic 0 and choices empty.
FreshDefaults ==
    \E n \in {Cardinality(DOMAIN options')}, size \in {Cardinality(DOMAIN decisions')} :
    \E w \in {R(1, n)}, h \in {R(1, 10)} :
        /\ DOMAIN weights' = 0..(size - 1) /\ DOMAIN randoms' = 0..(size - 1)
        /\ DOMAIN heterogeneities' = 0..(size - 1) /\ DOMAIN accents' = 0..(size - 1)
        /\ DOMAIN statistics' = 0..(n - 1)
        /\ \A d \in 0..(size - 1) :
              /\ DOMAIN weights'[d] = 0..(n - 1) /\ DOMAIN randoms'[d] = 0..(n - 1)
              /\ accents'[d] = FromInt(1)
              /\ heterogeneities'[d] = h
              /\ \A o \in 0..(n - 1) : weights'[d][o] = w
        /\ \A o \in 0..(n - 1) : statistics'[o] = Zero
        /\ choices' = <<>>

\* C11: a selector that new has just built with at least one option has the
\* default shapes and values (weights 1/N, accents 1.0, heterogeneities 0.1,
\* statistics 0, choices empty); with these weights and accents every true
\* increment is N; and no later step changes the length of statistics.
C11_FreshDefaults ==
    [][/\ (pc = "new" /\ N' >= 1) => FreshDefaults
       /\ (pc = "ready" /\ calls = 0 /\ DefaultWeights) =>
             \E n \in {FromInt(N)} :
                 \A d \in DOMAIN decisions : \A o \in DOMAIN options :
                     true_increment(d, o) = n
       /\ (pc # "new") => (DOMAIN statistics' = DOMAIN statistics
                            /\ DOMAIN statistics = DOMAIN options)]_vars

\* A selector with the defaults of new has been run and statistics still has
\* one element per option.
C11_Witness ==
    /\ Returned /\ N >= 2 /\ M >= 2 /\ DefaultWeights
    /\ \A d \in DOMAIN decisions : \A o \in DOMAIN options : true_increment(d, o) = FromInt(N)
    /\ DOMAIN statistics = 0..(N - 1)
    /\ ~ZeroStatistics

\* C12: while a decision at which some option has positive weight is being
\* settled, neither the increment nor the normalization changes the statistic
\* of an option whose weight at that decision is 0, whatever its index.
C12_ZeroWeightUntouched ==
    [][(pc \in {"increment", "normalize"} /\ ~AllZeroWeights(dec)) =>
          \A o \in DOMAIN options :
              IsZeroWeight(dec, o) => statistics'[o] = statistics[o]]_vars

\* C13: the normalization of decision d subtracts the one amount
\* accents[d] / (sum of weights[d]) from the statistic of every option whose
\* weight at d is positive and leaves the others alone; it follows the
\* increment of the same decision and precedes the next evaluation.
C13_Normalize ==
    [][/\ (pc = "normalize") =>
            /\ statistics' =
                  [o \in DOMAIN options |->
                      IF IsPositive(weights[dec][o])
                      THEN RSub(statistics[o],
                                RDiv(accents[dec], SumFrom(weights[dec], 0)))
                      ELSE statistics[o]]
            /\ pc' = "eval" /\ dec' = dec + 1
       /\ (pc = "increment") => (pc' = "normalize" /\ dec' = dec)
       /\ (pc' = "normalize") => pc = "increment"
       /\ (pc = "eval" /\ pc' = "increment") => statistics' = statistics]_vars

\* The second decision has been settled with a weight row that differs from
\* the first, has a zero weight and does not sum to 1.
C13_Witness ==
    /\ pc = "eval" /\ dec = 2 /\ N >= 2
    /\ weights[1] # weights[0]
    /\ \E o \in DOMAIN options : IsZeroWeight(1, o)
    /\ ~AllZeroWeights(1)
    /\ SumFrom(weights[1], 0) # FromInt(1)
    /\ \E o \in DOMAIN options : IsFinite(statistics[o]) /\ statistics[o] # Zero

\* The lowest-indexed option of least value in vals.
LeastOf(vals) ==
    CHOOSE o \in DOMAIN vals :
        /\ \A p \in DOMAIN vals : RLeq(vals[o], vals[p])
        /\ \A p \in DOMAIN vals : p < o => RLess(vals[o], vals[p])

\* The option with the least scheduling value at decision d under the
\* current statistics, the lowest index among equals.
Least(d) ==
    CHOOSE o \in {LeastOf(vals) : vals \in {[p \in DOMAIN options |-> Value(d, p)]}} : TRUE

\* C14: a call starts at decision 0 with choices empty; each decision is
\* evaluated from the statistics the previous settle left, its pick becomes
\* element dec of choices and nothing recorded earlier changes; it is then
\* settled (increment, normalize) and only then does dec advance by one; the
\* call returns after decision M-1 with one element per decision.
C14_InOrder ==
    [][/\ (pc = "ready" /\ pc' # "ready") =>
            (pc' = "eval" /\ dec' = 0 /\ choices' = <<>> /\ statistics' = statistics)
       /\ (pc = "eval" /\ dec < M /\ N >= 1) =>
            /\ pc' = "increment" /\ dec' = dec /\ statistics' = statistics
            /\ Len(choices) = dec
            /\ choices' = Append(choices, options[Least(dec)])
       /\ (pc = "increment") => (pc' = "normalize" /\ dec' = dec /\ choices' = choices)
       /\ (pc = "normalize") => (pc' = "eval" /\ dec' = dec + 1 /\ choices' = choices)
       /\ (pc = "eval" /\ dec >= M) =>
            (pc' = "ready" /\ dec = M /\ Len(choices) = M
             /\ choices' = choices /\ statistics' = statistics)]_vars

\* A run of three decisions has returned whose picks are not all the same.
C14_Witness ==
    /\ Returned /\ M = 3 /\ N >= 2 /\ Len(choices) = 3
    /\ choices[1] # choices[2] /\ choices[2] # choices[3]

\* C15: after the first call and after the second call on one selector
\* (c = 1, 2) statistics is what a single run from zero statistics over the
\* rows repeated c times leaves, and choices is the picks of the last M
\* decisions of that run: no call resets statistics.
C15_Compounds ==
    (Returned /\ sel = 1 /\ calls <= 2 /\ N >= 1) =>
        \E r \in LoopFrom([o \in DOMAIN options |-> Zero], 0, calls * M, <<>>) :
            /\ statistics = r[1]
            /\ choices = SubSeq(r[2], (calls - 1) * M + 1, calls * M)

\* A second call has returned with choices that differ from the first call's.
C15_Witness ==
    /\ Returned /\ sel = 1 /\ calls = 2 /\ N >= 2 /\ M >= 2
    /\ choices # first[1]
    /\ statistics # first[2]

\* 0.3, 0.5, 0.4
SortExample == [o \in 0..2 |-> <<R(3, 10), R(1, 2), R(2, 5)>>[o + 1]]

\* vals is ascending along sorted, options of equal value in index order.
StablyAscending(vals, sorted) ==
    \A i, j \in 1..Len(sorted) :
        i < j => /\ RLeq(vals[sorted[i]], vals[sorted[j]])
                 /\ (partial_cmp(vals[sorted[i]], vals[sorted[j]]) = "Equal"
                        => sorted[i] < sorted[j])

\* C16: sort_options returns every option exactly once, in ascending order of
\* the values, options of equal value in option-index order, so that the
\* first one is the lowest-indexed option of least value; the values
\* 0.3, 0.5, 0.4 over a, b, c give a, c, b.
C16_StableSort ==
    /\ (pc = "eval" /\ dec < M) =>
          \E vals \in {scheduling_values(dec)} :
          \A sorted \in sort_options(vals) :
              /\ Len(sorted) = N
              /\ {sorted[k] : k \in 1..Len(sorted)} = DOMAIN options
              /\ StablyAscending(vals, sorted)
              /\ N >= 1 =>
                    \A p \in DOMAIN options :
                        /\ RLeq(vals[sorted[1]], vals[p])
                        /\ p < sorted[1] => RLess(vals[sorted[1]], vals[p])
    /\ (pc = "ready" /\ N = 3) =>
          \A sorted \in sort_options(SortExample) :
              [k \in 1..3 |-> options[sorted[k]]] = <<"a", "c", "b">>

\* Three options are about to be sorted, the last two of equal value and
\* less than the first.
C16_Witness ==
    /\ pc = "eval" /\ dec < M /\ N = 3
    /\ Value(dec, 1) = Value(dec, 2)
    /\ RLess(Value(dec, 1), Value(dec, 0))
    /\ sort_options(scheduling_values(dec)) = {<<1, 2, 0>>}

\* C17: with the default weights 1/N in every row (and accents 1.0) the
\* statistics sum to exactly 0 after each settled decision, whatever the
\* randoms and heterogeneities.
C17_ZeroSum ==
    (pc = "eval" /\ N >= 1 /\ DefaultWeights) => IsZero(SumFrom(statistics, 0))

\* Two decisions of a default selector with heterogeneity 0.1 have been
\* settled: the statistics are no longer zero and sum to 0.
C17_Witness ==
    /\ pc = "eval" /\ dec >= 2 /\ N >= 2 /\ DefaultWeights
    /\ \A d \in DOMAIN decisions : heterogeneities[d] = Tenth /\ accents[d] = FromInt(1)
    /\ ~ZeroStatistics
    /\ IsZero(SumFrom(statistics, 0))

====
